---- MODULE Spec2Model ----
(***************************************************************************)
(* pysequencer: the lifecycle state machine (state_machine.py) and the     *)
(* execution controller (engine.py).                                       *)
(*                                                                         *)
(* The specifications share the variables:                                *)
(*   SMSpec    a bare StateMachine driven by arbitrary transition(T) calls  *)
(*             and subscribe_to_transitions registrations;                 *)
(*   WaitSpec  a bare StateMachine with callers of wait_for_state, and      *)
(*             FairWaitSpec, the same under a fair event loop;             *)
(*   Spec      one SequencerEngine driven by the lifecycle commands,        *)
(*             interleaved with the steps of its execution task(s);        *)
(*   FairSpec  the engine with weak fairness of the execution task (the    *)
(*             event loop runs every ready task);                          *)
(*   ApiSpec   two engines behind one SequencerAPI (api.py), and            *)
(*             FairApiSpec, the same under a fair event loop.              *)
(*                                                                         *)
(* asyncio is a cooperative scheduler: code between two suspension points  *)
(* is one action.  transition() holds no await inside its lock, so the     *)
(* whole call is atomic; stop() suspends in wait_for(self._task) and       *)
(* halt() suspends in `await self._task`.                                  *)
(***************************************************************************)
EXTENDS Integers, Sequences, FiniteSets, TLC

\* ---- bounds -------------------------------------------------------------
MaxSteps == 2      \* longest step list handed to start()
MaxRuns  == 2      \* number of accepted start() calls
MaxCmds  == 4      \* number of lifecycle commands / transition calls issued
NSubs    == 2      \* user callbacks (observers and subscribers per event)
MaxObs   == 2      \* observers registered on the bare StateMachine

\* ---- SequenceState (state_machine.py 15-24) -----------------------------
SequenceState ==
    {"IDLE", "RUNNING", "PAUSED", "STOPPING", "STOPPED", "HALTING", "HALTED"}

\* StateMachine.VALID_TRANSITIONS (state_machine.py 42-60), with a PAUSED ->
\* STOPPED edge added
VALID_TRANSITIONS_pausedStopped ==
    [s \in SequenceState |->
        CASE s = "IDLE"     -> {"RUNNING", "HALTING"}
          [] s = "RUNNING"  -> {"PAUSED", "STOPPING", "STOPPED", "HALTING", "HALTED"}
          [] s = "PAUSED"   -> {"RUNNING", "STOPPING", "STOPPED", "HALTING"}
          [] s = "STOPPING" -> {"STOPPED", "HALTING"}
          [] s = "STOPPED"  -> {"IDLE", "HALTING"}
          [] s = "HALTING"  -> {"HALTED"}
          [] s = "HALTED"   -> {"IDLE"}]

\* StateMachine.VALID_TRANSITIONS (state_machine.py 42-60), without the
\* HALTED -> IDLE edge
VALID_TRANSITIONS_noHaltedIdle ==
    [s \in SequenceState |->
        CASE s = "IDLE"     -> {"RUNNING", "HALTING"}
          [] s = "RUNNING"  -> {"PAUSED", "STOPPING", "STOPPED", "HALTING", "HALTED"}
          [] s = "PAUSED"   -> {"RUNNING", "STOPPING", "HALTING"}
          [] s = "STOPPING" -> {"STOPPED", "HALTING"}
          [] s = "STOPPED"  -> {"IDLE", "HALTING"}
          [] s = "HALTING"  -> {"HALTED"}
          [] s = "HALTED"   -> {}]

\* StateMachine.VALID_TRANSITIONS (state_machine.py 42-60), without the
\* STOPPED -> HALTING edge
VALID_TRANSITIONS_noStoppedHalting ==
    [s \in SequenceState |->
        CASE s = "IDLE"     -> {"RUNNING", "HALTING"}
          [] s = "RUNNING"  -> {"PAUSED", "STOPPING", "STOPPED", "HALTING", "HALTED"}
          [] s = "PAUSED"   -> {"RUNNING", "STOPPING", "HALTING"}
          [] s = "STOPPING" -> {"STOPPED", "HALTING"}
          [] s = "STOPPED"  -> {"IDLE"}
          [] s = "HALTING"  -> {"HALTED"}
          [] s = "HALTED"   -> {"IDLE"}]

\* StateMachine.VALID_TRANSITIONS (state_machine.py 42-60)
VALID_TRANSITIONS ==
    [s \in SequenceState |->
        CASE s = "IDLE"     -> {"RUNNING", "HALTING"}
          [] s = "RUNNING"  -> {"PAUSED", "STOPPING", "STOPPED", "HALTING", "HALTED"}
          [] s = "PAUSED"   -> {"RUNNING", "STOPPING", "HALTING"}
          [] s = "STOPPING" -> {"STOPPED", "HALTING"}
          [] s = "STOPPED"  -> {"IDLE", "HALTING"}
          [] s = "HALTING"  -> {"HALTED"}
          [] s = "HALTED"   -> {"IDLE"}]

\* ---- callbacks ----------------------------------------------------------
\* the observer the engine registers in its constructor (engine.py 31)
EngineObserver == 0
\* user supplied callables
Callables == 1 .. NSubs
\* every callable as a list, in registration order
RECURSIVE UpTo(_)
UpTo(n) == IF n = 0 THEN <<>> ELSE Append(UpTo(n - 1), n)

\* SequencerEngine._event_bus after the callers have subscribed: every user
\* callable is subscribed to each event type, in order (engine.py 40-50)
EventTypes == {"state_changed", "step_started", "step_completed"}
EventBus == [t \in EventTypes |-> UpTo(NSubs)]

VARIABLES
    state,       \* StateMachine._state
    callbacks,   \* StateMachine._transition_callbacks
    bad,         \* the user callables that raise when invoked
    tasks,       \* every execution task ever spawned by start()
    task,        \* SequencerEngine._task: 0 = None, else index into tasks
    waiting,     \* the suspended coroutines: stop()/halt() on a task,
                 \* wait_for_state() on the _state_changed event
    events,      \* what the event bus published, in order
    last,        \* the call that returned last
    ncalls,      \* number of calls issued
    api          \* SequencerAPI: the engines registered beside this one

vars == <<state, callbacks, bad, tasks, task, waiting, events, last, ncalls, api>>

NoCall == [op |-> "none", arg |-> "-", pre |-> "IDLE", ret |-> FALSE,
           exc |-> "none", solo |-> TRUE, dl |-> <<>>]

\* no SequencerAPI: the object was constructed directly.  cur: the id of
\* the engine whose fields the variables above hold; rest: the fields of
\* the other registered engines; req: the sequence id the last API command
\* named; n: the number of API commands issued
NoApi == [cur |-> 1, rest |-> <<>>, req |-> 0, n |-> 0]

\* ---- EventBus.publish (engine.py 52-59) ---------------------------------
\* the loop without the try/except: the first raising subscriber ends it
RECURSIVE publish_noCatch(_, _)
publish_noCatch(subs, badset) ==
    IF subs = <<>> THEN [called |-> <<>>, raised |-> FALSE]
    ELSE IF Head(subs) \in badset THEN [called |-> <<Head(subs)>>, raised |-> TRUE]
    ELSE LET rest == publish_noCatch(Tail(subs), badset)
         IN  [called |-> <<Head(subs)>> \o rest.called, raised |-> rest.raised]

\* for callback in subs: try: callback(**kwargs) except Exception: log
RECURSIVE publish(_, _)
publish(subs, badset) ==
    IF subs = <<>> THEN [called |-> <<>>, raised |-> FALSE]
    ELSE LET rest == publish(Tail(subs), badset)
         IN  [called |-> <<Head(subs)>> \o rest.called, raised |-> rest.raised]

\* does invoking transition observer cb raise?  The engine's observer
\* _on_state_transition (engine.py 61-68) raises iff its _publish does.
CallRaises(cb, badset) ==
    IF cb = EngineObserver
    THEN publish(EventBus["state_changed"], badset).raised
    ELSE cb \in badset

\* ---- observer loop of StateMachine.transition (state_machine.py 124-128)
\* for callback in self._transition_callbacks: try: callback(event) except ...
RECURSIVE notify(_, _)
notify(cbs, badset) ==
    IF cbs = <<>> THEN [called |-> <<>>, raised |-> FALSE]
    ELSE LET rest == notify(Tail(cbs), badset)
         IN  [called |-> <<Head(cbs)>> \o rest.called, raised |-> rest.raised]

\* ---- StateMachine.transition (state_machine.py 80-133) ------------------
\* the event built after _state was overwritten: from_state is the target
StateTransitionEvent_stale(old_state, target_state) ==
    [from_state |-> target_state, to_state |-> target_state]

\* StateTransitionEvent(from_state=old_state, to_state=target_state)
\* (state_machine.py 104-112)
StateTransitionEvent(old_state, target_state) ==
    [from_state |-> old_state, to_state |-> target_state]

\* transition without the legality check: every target is applied
transition_noCheck(s, target, cbs, badset) ==
    LET n == notify(cbs, badset)
        engineCalled == \E i \in 1 .. Len(n.called) : n.called[i] = EngineObserver
    IN  [ok     |-> ~n.raised,
         state  |-> target,
         event  |-> StateTransitionEvent(s, target),
         applied |-> TRUE,
         obs    |-> n.called,
         got    |-> IF engineCalled
                    THEN publish(EventBus["state_changed"], badset).called
                    ELSE <<>>,
         raised |-> n.raised]

\* ok: the return value; state: _state afterwards; applied: the target was
\* legal and _state was set; event: the event handed to the observers; obs: the observers invoked, in order; got: the
\* state_changed subscribers the engine's observer reached; raised: an
\* exception left the call
transition(s, target, cbs, badset) ==
    IF target \notin VALID_TRANSITIONS[s]
    THEN [ok |-> FALSE, state |-> s, event |-> StateTransitionEvent(s, s),
          applied |-> FALSE, obs |-> <<>>, got |-> <<>>, raised |-> FALSE]
    ELSE LET n == notify(cbs, badset)
             engineCalled == \E i \in 1 .. Len(n.called) : n.called[i] = EngineObserver
         IN  [ok     |-> ~n.raised,
              state  |-> target,
              event  |-> StateTransitionEvent(s, target),
              applied |-> TRUE,
              obs    |-> n.called,
              got    |-> IF engineCalled
                         THEN publish(EventBus["state_changed"], badset).called
                         ELSE <<>>,
              raised |-> n.raised]

\* the exception that left a call: none | callback (a callback's fault
\* propagated) | cancelled (CancelledError of the awaited task)
Exc(raised) == IF raised THEN "callback" ELSE "none"

\* the record of a call that returned or raised
Ret(op, arg, pre, ret, exc, solo, dl) ==
    [op |-> op, arg |-> arg, pre |-> pre, ret |-> ret, exc |-> exc,
     solo |-> solo, dl |-> dl]

\* what each observer invoked by a transition received
Deliveries(r) ==
    [i \in 1 .. Len(r.obs) |->
        [cb |-> r.obs[i], from_state |-> r.event.from_state,
         to_state |-> r.event.to_state]]

\* ---- SMSpec: a bare StateMachine (the unit tests' sm = StateMachine()) ---
\* StateMachine.__init__ (state_machine.py 62-67)
SMInit ==
    /\ state = "IDLE"
    /\ callbacks = <<>>
    /\ bad \in SUBSET Callables
    /\ tasks = <<>>
    /\ task = 0
    /\ waiting = {}
    /\ events = <<>>
    /\ last = NoCall
    /\ ncalls = 0
    /\ api = NoApi

\* StateMachine.subscribe_to_transitions (state_machine.py 74-78)
subscribe_to_transitions(cb) ==
    /\ Len(callbacks) < MaxObs
    /\ callbacks' = Append(callbacks, cb)
    /\ UNCHANGED <<api, state, bad, tasks, task, waiting, events, last, ncalls>>

\* self._state_changed.set(); self._state_changed.clear()
\* (state_machine.py 130-131): set() resolves the future of every waiter
\* registered on the event, clear() resets the flag at once, so the flag is
\* never seen set.  A wait_for_state() whose timer has fired, or whose
\* inner wait has not registered yet, is not affected.
Pulse(ws) ==
    {IF w.op = "wait" /\ w.pc = "blocked" THEN [w EXCEPT !.pc = "woken"] ELSE w :
        w \in ws}

\* await sm.transition(target) (state_machine.py 80-133)
sm_transition(target) ==
    /\ ncalls < MaxCmds
    /\ LET r == transition(state, target, callbacks, bad)
       IN  /\ state' = r.state
           /\ waiting' = IF r.applied THEN Pulse(waiting) ELSE waiting
           /\ last' = Ret("transition", target, state, r.ok, Exc(r.raised), TRUE,
                          Deliveries(r))
    /\ ncalls' = ncalls + 1
    /\ UNCHANGED <<api, callbacks, bad, tasks, task, events>>

SMNext ==
    \/ \E cb \in Callables : subscribe_to_transitions(cb)
    \/ \E target \in SequenceState : sm_transition(target)

SMSpec == SMInit /\ [][SMNext]_vars

\* ---- WaitSpec: a bare StateMachine and its wait_for_state callers -------
\* the targets the callers wait for
WaitTargets == {"RUNNING", "PAUSED"}

\* while self._state != target_state (state_machine.py 148)
WaitSatisfied(s, target) == s = target

\* a suspended wait_for_state(target, timeout) call, issued as call number
\* at; tmo: a timeout was given.  pc: starting (asyncio.wait_for with a
\* timeout has wrapped self._state_changed.wait() in a task that has not
\* run yet, so no future is registered on the event) | blocked (the future
\* is registered) | woken (a pulse resolved the future) | timedout (the
\* timer fired first)
Waiter(at, target, tmo, pc) ==
    [op |-> "wait", at |-> at, target |-> target, tmo |-> tmo, pc |-> pc]

\* await asyncio.wait_for(self._state_changed.wait(), timeout=timeout)
\* (state_machine.py 150) up to its first suspension: without a timeout
\* wait_for awaits the coroutine itself, which registers its future on the
\* event before it suspends
WaitBegin(tmo) == IF tmo THEN "starting" ELSE "blocked"

\* the call of wait_for_state, up to its return or its first suspension
\* (state_machine.py 135-150)
wait_for_state(target, tmo) ==
    /\ ncalls < MaxCmds
    /\ IF WaitSatisfied(state, target)
       THEN /\ last' = Ret("wait_for_state", target, state, TRUE, "none", TRUE, <<>>)
            /\ waiting' = waiting
       ELSE /\ waiting' = waiting \cup {Waiter(ncalls + 1, target, tmo, WaitBegin(tmo))}
            /\ last' = last
    /\ ncalls' = ncalls + 1
    /\ UNCHANGED <<api, state, callbacks, bad, tasks, task, events>>

\* the inner task of wait_for runs Event.wait(): the flag is clear, so it
\* registers a future on the event and suspends (state_machine.py 150)
wait_register(w) ==
    /\ w \in waiting
    /\ w.op = "wait"
    /\ w.pc = "starting"
    /\ waiting' = (waiting \ {w}) \cup {[w EXCEPT !.pc = "blocked"]}
    /\ UNCHANGED <<api, state, callbacks, bad, tasks, task, events, last, ncalls>>

\* the timer of wait_for fires while the future is unresolved
\* (state_machine.py 150)
wait_timeout(w) ==
    /\ w \in waiting
    /\ w.op = "wait"
    /\ w.tmo
    /\ w.pc = "blocked"
    /\ waiting' = (waiting \ {w}) \cup {[w EXCEPT !.pc = "timedout"]}
    /\ UNCHANGED <<api, state, callbacks, bad, tasks, task, events, last, ncalls>>

\* wait_for raised TimeoutError: return False (state_machine.py 151-152)
wait_false(w) ==
    /\ w \in waiting
    /\ w.op = "wait"
    /\ w.pc = "timedout"
    /\ waiting' = waiting \ {w}
    /\ last' = Ret("wait_for_state", w.target, state, FALSE, "none", TRUE, <<>>)
    /\ UNCHANGED <<api, state, callbacks, bad, tasks, task, events, ncalls>>

\* wait_for returned after a pulse: the loop tests the state again and
\* returns True or waits once more (state_machine.py 148-153)
wait_wake(w) ==
    /\ w \in waiting
    /\ w.op = "wait"
    /\ w.pc = "woken"
    /\ IF WaitSatisfied(state, w.target)
       THEN /\ waiting' = waiting \ {w}
            /\ last' = Ret("wait_for_state", w.target, state, TRUE, "none", TRUE, <<>>)
       ELSE /\ waiting' = (waiting \ {w}) \cup {[w EXCEPT !.pc = WaitBegin(w.tmo)]}
            /\ last' = last
    /\ UNCHANGED <<api, state, callbacks, bad, tasks, task, events, ncalls>>

\* StateMachine.__init__ (state_machine.py 62-67); no observer is registered
WaitInit == SMInit /\ bad = {}

\* the steps of the waiters that the event loop always schedules
WaiterNext ==
    \E w \in waiting : wait_register(w) \/ wait_wake(w) \/ wait_false(w)

WaitNext ==
    \/ \E target \in SequenceState : sm_transition(target)
    \/ \E target \in WaitTargets, tmo \in BOOLEAN : wait_for_state(target, tmo)
    \/ \E w \in waiting : wait_timeout(w)
    \/ WaiterNext

WaitSpec == WaitInit /\ [][WaitNext]_vars

\* the event loop runs every ready coroutine, and a timer that is armed
\* fires
FairWaitSpec ==
    /\ WaitInit
    /\ [][WaitNext]_vars
    /\ WF_vars(WaiterNext)
    /\ WF_vars(\E w \in waiting : wait_timeout(w))

\* ---- Spec: one SequencerEngine -----------------------------------------
ActiveStates == {"RUNNING", "PAUSED", "STOPPING", "HALTING"}

\* asyncio.create_task(self._execute(sequence_data)) (engine.py 89): the task
\* is scheduled and has not run yet.  n = len(sequence_data["steps"]).
\* pc: created | exec | pause | cancelling | done
\* err: none | step (the step raised) | callback (a subscriber's fault
\* reached the loop); started: the coroutine has begun to run; cancelled:
\* cancel() was called on it; disturbed: a pause, stop or halt command was
\* issued during the run
NewTask(n) ==
    [pc |-> "created", idx |-> 0, n |-> n, err |-> "none", started |-> FALSE,
     cancelled |-> FALSE, disturbed |-> FALSE]

\* SequencerEngine.__init__ (engine.py 18-33), then the callers' subscribe()
\* and subscribe_to_transitions() registrations
EngineInit ==
    /\ state = "IDLE"
    /\ callbacks = <<EngineObserver>> \o UpTo(NSubs)
    /\ bad \in SUBSET Callables
    /\ tasks = <<>>
    /\ task = 0
    /\ waiting = {}
    /\ events = <<>>
    /\ last = NoCall
    /\ ncalls = 0

\* one engine, constructed directly (the tests' SequencerEngine(...))
Init == EngineInit /\ api = NoApi

\* a lifecycle command called on the engine itself
Direct(A) == A /\ UNCHANGED api

\* the published event with from_state and to_state exchanged
StateChanged_swapped(r, run, err) ==
    [type |-> "state_changed", run |-> run, from |-> r.event.to_state,
     to |-> r.event.from_state, idx |-> 0, st |-> r.state, err |-> err,
     obs |-> r.obs, got |-> r.got]

\* one published event.  state_changed: from/to; step events: idx; st is
\* the state at the moment of publication, got the subscribers invoked
StateChanged(r, run, err) ==
    [type |-> "state_changed", run |-> run, from |-> r.event.from_state,
     to |-> r.event.to_state, idx |-> 0, st |-> r.state, err |-> err,
     obs |-> r.obs, got |-> r.got]
StepEvent(type, run, idx, s, p) ==
    [type |-> type, run |-> run, from |-> "-", to |-> "-", idx |-> idx,
     st |-> s, err |-> FALSE, obs |-> <<>>, got |-> p.called]

\* the log after transition result r (_on_state_transition, engine.py 61-68)
LogTr(ev, r, run, err) ==
    IF r.applied /\ \E i \in 1 .. Len(r.obs) : r.obs[i] = EngineObserver
    THEN Append(ev, StateChanged(r, run, err))
    ELSE ev

\* a pause/stop/halt command was issued while these runs were in flight
Disturb(ts) ==
    [i \in DOMAIN ts |->
        IF ts[i].pc # "done" THEN [ts[i] EXCEPT !.disturbed = TRUE] ELSE ts[i]]

\* ---- start (engine.py 70-90) --------------------------------------------
\* start() without its local check: the table alone decides
StartAllowed_any == SequenceState

\* the states the local check of start() lets through (engine.py 80)
StartAllowed == {"IDLE"}

start(n) ==
    /\ ncalls < MaxCmds
    /\ state \in StartAllowed => Len(tasks) < MaxRuns
    /\ LET r == transition(state, "RUNNING", callbacks, bad)
           checked == state \in StartAllowed
           accepted == checked /\ r.ok
       IN  /\ state' = IF checked THEN r.state ELSE state
           /\ events' = IF checked THEN LogTr(events, r, Len(tasks) + 1, FALSE)
                        ELSE events
           /\ tasks' = IF accepted THEN Append(tasks, NewTask(n)) ELSE tasks
           /\ task' = IF accepted THEN Len(tasks) + 1 ELSE task
           /\ last' = Ret("start", "-", state, accepted, Exc(checked /\ r.raised),
                          waiting = {}, <<>>)
    /\ ncalls' = ncalls + 1
    /\ UNCHANGED <<callbacks, bad, waiting>>

\* the shape shared by pause, resume and reset: a local check of the
\* current state, then the transition, whose result is returned
Command(op, allowed, target, ts) ==
    /\ ncalls < MaxCmds
    /\ LET r == transition(state, target, callbacks, bad)
           checked == state \in allowed
       IN  /\ state' = IF checked THEN r.state ELSE state
           /\ events' = IF checked THEN LogTr(events, r, task, FALSE) ELSE events
           /\ last' = Ret(op, "-", state, checked /\ r.ok, Exc(checked /\ r.raised),
                          waiting = {}, <<>>)
    /\ tasks' = ts
    /\ ncalls' = ncalls + 1
    /\ UNCHANGED <<callbacks, bad, task, waiting>>

\* ---- pause (engine.py 92-100) -------------------------------------------
\* the states the local check of pause() lets through (engine.py 94)
PauseAllowed == {"RUNNING"}

pause == Command("pause", PauseAllowed, "PAUSED", Disturb(tasks))

\* ---- resume (engine.py 102-110) -----------------------------------------
\* resume() also lets IDLE through
ResumeAllowed_idle == {"PAUSED", "IDLE"}

\* the states the local check of resume() lets through (engine.py 104)
ResumeAllowed == {"PAUSED"}

resume == Command("resume", ResumeAllowed, "RUNNING", tasks)

\* ---- reset (engine.py 157-165) ------------------------------------------
\* the states the local check of reset() lets through (engine.py 159)
ResetAllowed == {"STOPPED", "HALTED"}

reset == Command("reset", ResetAllowed, "IDLE", tasks)

\* ---- stop (engine.py 112-134) -------------------------------------------
\* the states the local check of stop() lets through (engine.py 114)
StopAllowed == {"RUNNING", "PAUSED", "STOPPED"}

\* wait_for(self._task, timeout=5.0) returns (engine.py 129): the task is
\* done.  After STOPPING the loop starts no new sleep, and the 0.1 sleep it
\* may be in ends long before the 5.0 timeout, so the timeout never fires
\* on a task that is still suspended; the `except TimeoutError` branch
\* (engine.py 130-132) is not reachable.
StopWaitDone(tk) == tasks[tk].pc = "done"

\* the call, up to its return or its suspension in wait_for
stop ==
    /\ ncalls < MaxCmds
    /\ LET r == transition(state, "STOPPING", callbacks, bad)
           checked == state \in StopAllowed /\ state # "STOPPED"
           suspends == checked /\ r.ok
       IN  /\ state' = IF checked THEN r.state ELSE state
           /\ events' = IF checked THEN LogTr(events, r, task, FALSE) ELSE events
           /\ waiting' = IF suspends
                         THEN waiting \cup {[op |-> "stop", tk |-> task,
                                             pre |-> state, at |-> ncalls + 1]}
                         ELSE waiting
           /\ last' = IF suspends THEN last
                      ELSE Ret("stop", "-", state,
                               state \in StopAllowed /\ state = "STOPPED",
                               Exc(checked /\ r.raised), waiting = {}, <<>>)
    /\ tasks' = Disturb(tasks)
    /\ ncalls' = ncalls + 1
    /\ UNCHANGED <<callbacks, bad, task>>

\* the task ended in the cancelled state: cancel() reached it before its
\* first run, so CancelledError was never caught inside _execute
EndedCancelled(t) == t.cancelled /\ ~t.started

\* wait_for returned: return True (engine.py 134).  If the awaited task
\* ended cancelled, wait_for re-raises its CancelledError, which stop()
\* does not catch (engine.py 128-132).
stop_return(w) ==
    /\ w \in waiting
    /\ w.op = "stop"
    /\ StopWaitDone(w.tk)
    /\ waiting' = waiting \ {w}
    /\ last' = Ret("stop", "-", w.pre, ~EndedCancelled(tasks[w.tk]),
                   IF EndedCancelled(tasks[w.tk]) THEN "cancelled" ELSE "none",
                   ncalls = w.at /\ waiting = {w}, <<>>)
    /\ UNCHANGED <<api, state, callbacks, bad, tasks, task, events, ncalls>>

\* ---- halt (engine.py 136-155) -------------------------------------------
\* halt() cancels and awaits nothing
HaltMustWait_never(t) == FALSE

\* if self._task and not self._task.done() (engine.py 146)
HaltMustWait(t) == t # 0 /\ tasks[t].pc # "done"

\* halt() does not wait for the cancelled task
HaltAwaitDone_noWait(tk) == TRUE

\* await self._task returns (engine.py 148-151)
HaltAwaitDone(tk) == tasks[tk].pc = "done"

\* self._task.cancel() (engine.py 147)
Cancel(ts, t) == [ts EXCEPT ![t].pc = "cancelling", ![t].cancelled = TRUE]

\* halt() without the short-circuit
HaltShortCircuit_never(s) == FALSE

\* if self.state == SequenceState.HALTED: return True (engine.py 138-139)
HaltShortCircuit(s) == s = "HALTED"

\* the call, up to its return or its suspension in `await self._task`
halt ==
    /\ ncalls < MaxCmds
    /\ LET r1 == transition(state, "HALTING", callbacks, bad)
           r2 == transition(r1.state, "HALTED", callbacks, bad)
           checked == ~HaltShortCircuit(state)
           entered == checked /\ r1.ok
           suspends == entered /\ HaltMustWait(task)
           ev1 == LogTr(events, r1, task, FALSE)
       IN  /\ state' = IF ~checked THEN state
                       ELSE IF entered /\ ~suspends THEN r2.state ELSE r1.state
           /\ events' = IF ~checked THEN events
                        ELSE IF entered /\ ~suspends THEN LogTr(ev1, r2, task, FALSE)
                        ELSE ev1
           /\ tasks' = IF suspends THEN Cancel(Disturb(tasks), task)
                       ELSE Disturb(tasks)
           /\ waiting' = IF suspends
                         THEN waiting \cup {[op |-> "halt", tk |-> task,
                                             pre |-> state, at |-> ncalls + 1]}
                         ELSE waiting
           /\ last' = IF suspends THEN last
                      ELSE Ret("halt", "-", state,
                               ~checked \/ (entered /\ r2.ok),
                               Exc(checked /\ (r1.raised \/ (entered /\ r2.raised))),
                               waiting = {}, <<>>)
    /\ ncalls' = ncalls + 1
    /\ UNCHANGED <<callbacks, bad, task>>

\* the awaited task has ended: transition to HALTED and return its result
\* (engine.py 153-155).  A stop() suspended on the same task registered its
\* wake-up first, so it returns first.
halt_finish(w) ==
    /\ w \in waiting
    /\ w.op = "halt"
    /\ HaltAwaitDone(w.tk)
    /\ ~ \E v \in waiting : v.op = "stop" /\ v.tk = w.tk
    /\ LET r == transition(state, "HALTED", callbacks, bad)
       IN  /\ state' = r.state
           /\ events' = LogTr(events, r, task, FALSE)
           /\ last' = Ret("halt", "-", w.pre, r.ok, Exc(r.raised),
                          ncalls = w.at /\ waiting = {w}, <<>>)
    /\ waiting' = waiting \ {w}
    /\ UNCHANGED <<api, callbacks, bad, tasks, task, ncalls>>

\* ---- _execute (engine.py 167-216) ----------------------------------------
\* the pause loop never blocks
PauseBlocks_never(s) == FALSE

\* while self.state == SequenceState.PAUSED: sleep (engine.py 180-181)
PauseBlocks(s) == s = "PAUSED"

\* the states in which the exhausted loop requests STOPPED (engine.py 205)
CompletionStates == {"RUNNING", "PAUSED"}

\* the index of the step after idx: the loop skips one
NextIndex_skip(idx, n) == IF idx + 2 <= n THEN idx + 2 ELSE n

\* for idx, step in enumerate(steps) (engine.py 178)
NextIndex(idx, n) == idx + 1

\* except Exception: transition(HALTED, error=e) (engine.py 212-216); the
\* result of the transition is ignored
Handler(tk, t, s, ev, kind) ==
    LET r == transition(s, "HALTED", callbacks, bad)
    IN  [t  |-> [t EXCEPT !.pc = "done", !.err = kind],
         s  |-> r.state,
         ev |-> LogTr(ev, r, tk, TRUE)]

\* the loop also goes on in STOPPING
LoopStates_withStopping == {"RUNNING", "PAUSED", "STOPPING"}

\* the loop goes on only in these states (engine.py 184)
LoopStates == {"RUNNING", "PAUSED"}

\* after the loop, whether it was exhausted or left by break: request
\* STOPPED if the state is a completion state (engine.py 203-208)
Finish(tk, t, s, ev) ==
    IF s \in CompletionStates
    THEN LET r == transition(s, "STOPPED", callbacks, bad)
             ev1 == LogTr(ev, r, tk, FALSE)
         IN  IF r.raised THEN Handler(tk, t, r.state, ev1, "callback")
             ELSE [t |-> [t EXCEPT !.pc = "done"], s |-> r.state, ev |-> ev1]
    ELSE [t |-> [t EXCEPT !.pc = "done"], s |-> s, ev |-> ev]

\* the loop from the top of iteration t.idx up to the next suspension point
\* or the end of the coroutine (engine.py 178-208)
Loop(tk, t, s, ev) ==
    IF t.idx >= t.n
    THEN Finish(tk, t, s, ev)
    ELSE IF PauseBlocks(s)
    THEN [t |-> [t EXCEPT !.pc = "pause"], s |-> s, ev |-> ev]
    ELSE IF s \notin LoopStates
    THEN \* break (engine.py 184-186)
         Finish(tk, t, s, ev)
    ELSE LET p == publish(EventBus["step_started"], bad)
             ev1 == Append(ev, StepEvent("step_started", tk, t.idx, s, p))
         IN  IF p.raised THEN Handler(tk, t, s, ev1, "callback")
             ELSE [t |-> [t EXCEPT !.pc = "exec"], s |-> s, ev |-> ev1]

\* apply the outcome of a run of the task between two suspension points
Apply(tk, o) ==
    /\ tasks' = [tasks EXCEPT ![tk] = o.t]
    /\ state' = o.s
    /\ events' = o.ev
    /\ UNCHANGED <<api, callbacks, bad, task, waiting, last, ncalls>>

\* the task runs for the first time (engine.py 174-176, then the loop)
execute_start(tk) ==
    /\ tk \in DOMAIN tasks
    /\ tasks[tk].pc = "created"
    /\ Apply(tk, Loop(tk, [tasks[tk] EXCEPT !.started = TRUE], state, events))

\* the 0.1 sleep of the pause loop ended and the state is no longer PAUSED
\* (engine.py 180-181); while it is PAUSED the task only sleeps again
execute_unpause(tk) ==
    /\ tk \in DOMAIN tasks
    /\ tasks[tk].pc = "pause"
    /\ ~PauseBlocks(state)
    /\ Apply(tk, Loop(tk, tasks[tk], state, events))

\* the step ended: publish step_completed, then the next iteration
\* (engine.py 195-201)
execute_step_done(tk) ==
    /\ tk \in DOMAIN tasks
    /\ tasks[tk].pc = "exec"
    /\ LET t == tasks[tk]
           p == publish(EventBus["step_completed"], bad)
           ev1 == Append(events, StepEvent("step_completed", tk, t.idx, state, p))
       IN  IF p.raised
           THEN Apply(tk, Handler(tk, t, state, ev1, "callback"))
           ELSE Apply(tk, Loop(tk, [t EXCEPT !.idx = NextIndex(t.idx, t.n)],
                               state, ev1))

\* the step raised (engine.py 195-200 raise, 212-216 handle)
execute_fault(tk) ==
    /\ tk \in DOMAIN tasks
    /\ tasks[tk].pc = "exec"
    /\ Apply(tk, Handler(tk, tasks[tk], state, events, "step"))

\* CancelledError is delivered at the suspension point and swallowed
\* (engine.py 210-211); a task cancelled before its first run just ends
execute_cancelled(tk) ==
    /\ tk \in DOMAIN tasks
    /\ tasks[tk].pc = "cancelling"
    /\ tasks' = [tasks EXCEPT ![tk].pc = "done"]
    /\ UNCHANGED <<api, state, callbacks, bad, task, waiting, events, last, ncalls>>

\* the steps of the execution task that the event loop always schedules
TaskNext ==
    \E tk \in 1 .. MaxRuns :
        \/ execute_start(tk)
        \/ execute_unpause(tk)
        \/ execute_step_done(tk)
        \/ execute_cancelled(tk)

Next ==
    \/ \E n \in 0 .. MaxSteps : Direct(start(n))
    \/ Direct(pause)
    \/ Direct(resume)
    \/ Direct(stop)
    \/ Direct(halt)
    \/ Direct(reset)
    \/ \E w \in waiting : stop_return(w)
    \/ \E w \in waiting : halt_finish(w)
    \/ TaskNext
    \/ \E tk \in 1 .. MaxRuns : execute_fault(tk)

Spec == Init /\ [][Next]_vars

\* the runs whose callbacks all raise: what the loop publishes and where it
\* goes does not depend on the subscribers (engine.py 56-59), so progress is
\* checked for the least favourable subscribers only
FairInit == Init /\ bad = Callables

\* the event loop runs every task that is ready
FairSpec == FairInit /\ [][Next]_vars /\ WF_vars(TaskNext)

\* the event loop also resumes a stop() or halt() whose awaited task ended
CallNext ==
    \E w \in waiting : stop_return(w) \/ halt_finish(w)

FairCallSpec ==
    /\ FairInit
    /\ [][Next]_vars
    /\ WF_vars(TaskNext)
    /\ WF_vars(CallNext)

\* ---- ApiSpec: two engines behind one SequencerAPI (api.py 17-117) -------
MaxApiCmds == 3    \* number of commands issued through the API
ApiSteps == 1      \* length of the step lists handed to SequencerAPI.start

\* the ids of the two sequences created by create_sequence (api.py 21-34)
SequenceIds == {1, 2}

\* the fields of the engine held in the variables
Engine ==
    [state |-> state, tasks |-> tasks, task |-> task, waiting |-> waiting,
     events |-> events, last |-> last, ncalls |-> ncalls]

\* SequencerEngine(...) as create_sequence builds it (api.py 31-33)
NewEngine ==
    [state |-> "IDLE", tasks |-> <<>>, task |-> 0, waiting |-> {},
     events |-> <<>>, last |-> NoCall, ncalls |-> 0]

\* the lookup always returns the first engine
get_sequence_first(id) == 1

\* self._engines.get(sequence_id) (api.py 36-38): the engine stored under
\* the id
get_sequence(id) == id

\* SequencerAPI() after two create_sequence calls (api.py 19, 21-34); every
\* subscriber raises, as in FairInit
ApiInit ==
    /\ EngineInit
    /\ bad = Callables
    /\ api = [cur |-> 1, rest |-> [i \in SequenceIds \ {1} |-> NewEngine],
              req |-> 0, n |-> 0]

\* engine = self.get_sequence(sequence_id); return await engine.X()
\* (api.py 40-92); the ids are those of registered sequences
Forward(id, A) ==
    /\ api.n < MaxApiCmds
    /\ api.cur = get_sequence(id)
    /\ A
    /\ api' = [api EXCEPT !.req = id, !.n = api.n + 1]

\* SequencerAPI.start (api.py 40-47)
api_start(id, n) == Forward(id, start(n))
\* SequencerAPI.pause (api.py 49-56)
api_pause(id) == Forward(id, pause)
\* SequencerAPI.resume (api.py 58-65)
api_resume(id) == Forward(id, resume)
\* SequencerAPI.stop (api.py 67-74)
api_stop(id) == Forward(id, stop)
\* SequencerAPI.halt (api.py 76-83)
api_halt(id) == Forward(id, halt)
\* SequencerAPI.reset (api.py 85-92)
api_reset(id) == Forward(id, reset)

\* the event loop turns to the coroutines of engine id: its fields are
\* brought into the variables and those of the current engine are put aside
switch(id) ==
    /\ id \in DOMAIN api.rest
    /\ api' = [api EXCEPT
                 !.cur = id,
                 !.rest = [i \in (DOMAIN api.rest \ {id}) \cup {api.cur} |->
                              IF i = api.cur THEN Engine ELSE api.rest[i]]]
    /\ state' = api.rest[id].state
    /\ tasks' = api.rest[id].tasks
    /\ task' = api.rest[id].task
    /\ waiting' = api.rest[id].waiting
    /\ events' = api.rest[id].events
    /\ last' = api.rest[id].last
    /\ ncalls' = api.rest[id].ncalls
    /\ UNCHANGED <<callbacks, bad>>

\* the steps of these runs do not raise: step faults stay inside one
\* engine (Handler) and are explored in Spec
ApiNext ==
    \/ \E id \in SequenceIds : api_start(id, ApiSteps)
    \/ \E id \in SequenceIds : api_pause(id)
    \/ \E id \in SequenceIds : api_resume(id)
    \/ \E id \in SequenceIds : api_stop(id)
    \/ \E id \in SequenceIds : api_halt(id)
    \/ \E id \in SequenceIds : api_reset(id)
    \/ \E w \in waiting : stop_return(w)
    \/ \E w \in waiting : halt_finish(w)
    \/ TaskNext
    \/ \E id \in SequenceIds : switch(id)

ApiSpec == ApiInit /\ [][ApiNext]_vars

\* the event loop runs every ready task of every engine: it turns to each
\* engine again and again, and a task that is ready again and again runs
FairApiSpec ==
    /\ ApiInit
    /\ [][ApiNext]_vars
    /\ WF_vars(\E id \in SequenceIds : switch(id))
    /\ SF_vars(TaskNext)

\* ---- the claims ---------------------------------------------------------
StepTypes == {"step_started", "step_completed"}

\* the step events of run tk, in publication order
StepEventsOf(tk) ==
    SelectSeq(events, LAMBDA e : e.run = tk /\ e.type \in StepTypes)

\* the step_started events of run tk, in publication order
StartedOf(tk) ==
    SelectSeq(events, LAMBDA e : e.run = tk /\ e.type = "step_started")

\* run tk saw no pause, stop or halt command and no fault
Quiet(tk) ==
    /\ tk \in DOMAIN tasks
    /\ ~tasks[tk].disturbed
    /\ tasks[tk].err = "none"

\* run tk saw a pause, stop or halt command or a fault
Interfered(tk) ==
    /\ tk \in DOMAIN tasks
    /\ tasks[tk].disturbed \/ tasks[tk].err # "none"

\* the log holds a state_changed event into STOPPED published by run tk
StoppedBy(tk) ==
    \E i \in DOMAIN events :
        /\ events[i].type = "state_changed"
        /\ events[i].run = tk
        /\ events[i].to = "STOPPED"

\* C1: transition(T) from state S returns true iff T is in
\* VALID_TRANSITIONS[S]; on true the state is T, on false the state is
\* still S and no observer was notified.  The cycle IDLE, RUNNING, PAUSED,
\* RUNNING, STOPPING, STOPPED, IDLE is legal at every step and IDLE to
\* STOPPED is not.
C1_TransitionIffTable ==
    /\ "RUNNING" \in VALID_TRANSITIONS["IDLE"]
    /\ "PAUSED" \in VALID_TRANSITIONS["RUNNING"]
    /\ "RUNNING" \in VALID_TRANSITIONS["PAUSED"]
    /\ "STOPPING" \in VALID_TRANSITIONS["RUNNING"]
    /\ "STOPPED" \in VALID_TRANSITIONS["STOPPING"]
    /\ "IDLE" \in VALID_TRANSITIONS["STOPPED"]
    /\ "STOPPED" \notin VALID_TRANSITIONS["IDLE"]
    /\ last.op = "transition" =>
        /\ last.ret <=> last.arg \in VALID_TRANSITIONS[last.pre]
        /\ last.ret => state = last.arg
        /\ ~last.ret => state = last.pre /\ last.dl = <<>>

\* C1 witness: the last leg of the cycle, STOPPED to IDLE, was accepted
\* with an observer registered
C1_Witness ==
    /\ last.op = "transition"
    /\ last.ret
    /\ last.pre = "STOPPED"
    /\ state = "IDLE"
    /\ callbacks # <<>>

\* C2 as stated: every change into STOPPED comes from STOPPING and every
\* change into HALTED comes from HALTING, in every run of a controller
C2_Original ==
    \A i \in DOMAIN events :
        events[i].type = "state_changed" =>
            /\ events[i].to = "STOPPED" => events[i].from = "STOPPING"
            /\ events[i].to = "HALTED" => events[i].from = "HALTING"

\* C2 amended: every change into STOPPED comes from STOPPING or RUNNING and
\* every change into HALTED comes from HALTING or RUNNING, in the table and
\* in every run; PAUSED never goes directly to STOPPED or HALTED
C2_EdgesIntoTerminal ==
    /\ \A s \in SequenceState :
        /\ "STOPPED" \in VALID_TRANSITIONS[s] => s \in {"STOPPING", "RUNNING"}
        /\ "HALTED" \in VALID_TRANSITIONS[s] => s \in {"HALTING", "RUNNING"}
    /\ \A i \in DOMAIN events :
        events[i].type = "state_changed" =>
            /\ events[i].to = "STOPPED" => events[i].from \in {"STOPPING", "RUNNING"}
            /\ events[i].to = "HALTED" => events[i].from \in {"HALTING", "RUNNING"}

\* C2 witness: a run completed while a pause had been issued and resumed,
\* and the loop took the state from RUNNING to STOPPED
C2_Witness ==
    \E i, j \in DOMAIN events :
        /\ i < j
        /\ events[i].type = "state_changed" /\ events[i].to = "PAUSED"
        /\ events[j].type = "state_changed"
        /\ events[j].from = "RUNNING" /\ events[j].to = "STOPPED"

\* C3: a stop() that returned true with no other command issued meanwhile
\* leaves the state STOPPED or IDLE once the execution task has ended
C3_StopEndsStopped ==
    ( /\ last.op = "stop"
      /\ last.ret
      /\ last.solo
      /\ waiting = {}
      /\ task # 0
      /\ tasks[task].pc = "done" ) => state \in {"STOPPED", "IDLE"}

\* C4: while the state is HALTED no execution task is in flight
C4_NoTaskOutlivesHalt ==
    state = "HALTED" => \A tk \in DOMAIN tasks : tasks[tk].pc = "done"

\* C4 witness: HALTED was reached by a halt() that cancelled a task
C4_Witness ==
    /\ state = "HALTED"
    /\ \E tk \in DOMAIN tasks : tasks[tk].cancelled

\* every run spawned so far has reached STOPPED or was interfered with
AllSettled ==
    \A tk \in DOMAIN tasks : StoppedBy(tk) \/ Interfered(tk)

\* C5: a run of n steps that sees no pause, stop or halt and no fault
\* publishes started(0), completed(0), ..., completed(n-1) in this order,
\* changes the state to STOPPED only after the last of them, and
\* eventually does so (StoppedBy and Interfered are stable, so "every run
\* eventually settles" is "again and again all runs have settled")
C5_QuietRunCompletes ==
    /\ [](\A tk \in 1 .. MaxRuns :
            Quiet(tk) =>
                LET se == StepEventsOf(tk)
                    n  == tasks[tk].n
                IN  /\ Len(se) <= 2 * n
                    /\ \A i \in DOMAIN se :
                        /\ se[i].idx = (i - 1) \div 2
                        /\ se[i].type = IF i % 2 = 1 THEN "step_started"
                                        ELSE "step_completed"
                    /\ StoppedBy(tk) => Len(se) = 2 * n
                    /\ tasks[tk].pc = "done" => StoppedBy(tk))
    /\ []<>AllSettled

\* C5 witness: an undisturbed run of the longest step list ended in STOPPED
C5_Witness ==
    \E tk \in DOMAIN tasks :
        /\ Quiet(tk)
        /\ tasks[tk].n = MaxSteps
        /\ tasks[tk].pc = "done"
        /\ Len(StepEventsOf(tk)) = 2 * MaxSteps
        /\ state = "STOPPED"

\* C6: no step_started is published while the state is PAUSED, and the
\* step_started events of one run carry the indices 0, 1, 2, ... in order
C6_PauseHoldsSteps ==
    /\ \A i \in DOMAIN events :
        events[i].type = "step_started" => events[i].st # "PAUSED"
    /\ \A tk \in DOMAIN tasks :
        LET st == StartedOf(tk)
        IN  \A j \in DOMAIN st : st[j].idx = j - 1

\* C6 witness: a run was paused, resumed, and started a step afterwards
C6_Witness ==
    \E i, j, k \in DOMAIN events :
        /\ i < j /\ j < k
        /\ events[i].type = "state_changed" /\ events[i].to = "PAUSED"
        /\ events[j].type = "state_changed" /\ events[j].from = "PAUSED"
        /\ events[j].to = "RUNNING"
        /\ events[k].type = "step_started" /\ events[k].idx > 0
        /\ events[k].run = events[i].run

C8_FaultEndsHalted ==
    \A tk \in DOMAIN tasks :
        tasks[tk].err = "step" =>
            \E i \in DOMAIN events :
                /\ events[i].type = "state_changed"
                /\ events[i].run = tk
                /\ events[i].to = "HALTED"
                /\ events[i].err

\* C9: a successful transition hands each registered observer, once and in
\* registration order, the event (state before, target); a rejected one
\* invokes no observer
C9_ObserversNotifiedInOrder ==
    [][ncalls' # ncalls =>
        last'.dl = IF last'.ret
                   THEN [i \in 1 .. Len(callbacks) |->
                            [cb |-> callbacks[i], from_state |-> state,
                             to_state |-> last'.arg]]
                   ELSE <<>>]_vars

\* C9 witness: a transition was delivered to two different observers
C9_Witness ==
    /\ last.op = "transition"
    /\ last.ret
    /\ Len(last.dl) = 2
    /\ last.dl[1].cb # last.dl[2].cb

\* C10: raising observers and subscribers change nothing: no command
\* raises, an accepted command's transition sets the state, every observer
\* and every subscriber of each published event is invoked in order, and
\* no fault reaches the execution loop
C10_CallbackFaultsIsolated ==
    /\ last.exc # "callback"
    /\ last.op = "start" /\ last.pre = "IDLE" => last.ret
    /\ \A i \in DOMAIN events :
        /\ events[i].got = EventBus[events[i].type]
        /\ events[i].type = "state_changed" =>
            /\ events[i].obs = callbacks
            /\ events[i].st = events[i].to
    /\ \A tk \in DOMAIN tasks : tasks[tk].err # "callback"

\* C10 witness: every user callback raises and the run went on to
\* complete its second step
C10_Witness ==
    /\ bad = Callables
    /\ bad # {}
    /\ \E i \in DOMAIN events :
        events[i].type = "step_completed" /\ events[i].idx = 1


\* ---- claims about the lifecycle commands --------------------------------
\* this step is a call of op that returned without suspending; last' is
\* its record and state the state it was issued in
Returned(op) ==
    /\ ncalls' = ncalls + 1
    /\ waiting' = waiting
    /\ last'.op = op

\* the runs in flight
InFlight == {tk \in DOMAIN tasks : tasks[tk].pc # "done"}

\* this step spawned no task and cancelled none, and _task is the same
TasksUntouched ==
    /\ task' = task
    /\ Len(tasks') = Len(tasks)
    /\ \A tk \in DOMAIN tasks :
          /\ tasks'[tk].pc = tasks[tk].pc
          /\ tasks'[tk].cancelled = tasks[tk].cancelled

\* the accepted IDLE -> RUNNING transitions in the log
StartsLogged ==
    {i \in DOMAIN events :
        /\ events[i].type = "state_changed"
        /\ events[i].from = "IDLE"
        /\ events[i].to = "RUNNING"}

\* C11: of two start() calls racing on an IDLE controller at most one
\* returns true and at most one task is spawned: start() returns true only
\* when issued in IDLE, it then leaves RUNNING and spawns exactly one task,
\* every task comes from one accepted IDLE -> RUNNING transition, and at
\* every moment, across reset() and later start() calls too, at most one
\* execution task is in flight.
C11_AtMostOneTaskInFlight ==
    /\ [](Cardinality(InFlight) <= 1)
    /\ [](Len(tasks) = Cardinality(StartsLogged))
    /\ [][Returned("start") =>
            IF last'.ret
            THEN /\ state = "IDLE"
                 /\ state' = "RUNNING"
                 /\ Len(tasks') = Len(tasks) + 1
                 /\ task' = Len(tasks')
            ELSE tasks' = tasks /\ task' = task]_vars

\* a second run is in flight after the first one ended, and a start()
\* issued during it was turned down
C11_Witness ==
    /\ Len(tasks) = 2
    /\ tasks[1].pc = "done"
    /\ tasks[2].pc # "done"
    /\ last.op = "start"
    /\ ~last.ret
    /\ last.pre = "RUNNING"

\* C12: reset() returns false and leaves the state unchanged in IDLE,
\* RUNNING, PAUSED, STOPPING and HALTING; it returns true exactly when the
\* state is STOPPED or HALTED, and the state is then IDLE.  Every change of
\* the state into IDLE comes from STOPPED or HALTED.
C12_ResetOnlyFromTerminal ==
    /\ [][Returned("reset") =>
            /\ last'.ret <=> state \in {"STOPPED", "HALTED"}
            /\ last'.ret => state' = "IDLE"
            /\ ~last'.ret => state' = state /\ events' = events]_vars
    /\ [][state' = "IDLE" /\ state # "IDLE" => state \in {"STOPPED", "HALTED"}]_vars
    /\ [](\A i \in DOMAIN events :
             events[i].type = "state_changed" /\ events[i].to = "IDLE"
                 => events[i].from \in {"STOPPED", "HALTED"})

\* a reset() issued in HALTED returned true and the state is IDLE
C12_Witness ==
    /\ last.op = "reset"
    /\ last.ret
    /\ last.pre = "HALTED"
    /\ state = "IDLE"

\* the states in which the claim C13 says op is turned down
Forbidding(op) ==
    CASE op = "start"  -> SequenceState \ {"IDLE"}
      [] op = "pause"  -> SequenceState \ {"RUNNING"}
      [] op = "resume" -> SequenceState \ {"PAUSED"}
      [] op = "stop"   -> {"IDLE", "STOPPING", "HALTING", "HALTED"}

\* C13: a lifecycle command issued in a state that forbids it (start when
\* not IDLE, pause when not RUNNING, resume when not PAUSED, stop when IDLE,
\* STOPPING, HALTING or HALTED) returns false and changes nothing: the
\* state is unchanged, no event is published, no task is spawned or
\* cancelled.
C13_RejectedCommandChangesNothing ==
    [][\A op \in {"start", "pause", "resume", "stop"} :
          Returned(op) /\ state \in Forbidding(op) =>
              /\ ~last'.ret
              /\ last'.exc = "none"
              /\ state' = state
              /\ events' = events
              /\ TasksUntouched]_vars

\* a resume() issued while a run was RUNNING was turned down and the run
\* is still in flight
C13_Witness ==
    /\ last.op = "resume"
    /\ last.pre = "RUNNING"
    /\ ~last.ret
    /\ InFlight # {}

\* C14: stop() issued in STOPPED and halt() issued in HALTED return true
\* without any transition: the state is unchanged and no event is
\* published, however many times the call is repeated.
C14_TerminalCommandsIdempotent ==
    [][(Returned("stop") /\ state = "STOPPED") \/ (Returned("halt") /\ state = "HALTED")
          => /\ last'.ret
             /\ last'.exc = "none"
             /\ state' = state
             /\ events' = events
             /\ TasksUntouched]_vars

\* halt() was issued in HALTED for the second time at least: of three
\* calls only the first published events
C14_Witness ==
    /\ last.op = "halt"
    /\ last.pre = "HALTED"
    /\ last.ret
    /\ state = "HALTED"
    /\ ncalls >= 3
    /\ Len(events) = 2

\* ---- claims about the end of a run --------------------------------------
\* run tk ends in this step without a fault
EndsClean(tk) ==
    /\ tasks[tk].pc # "done"
    /\ tasks'[tk].pc = "done"
    /\ tasks'[tk].err = "none"

\* C16: when the loop has exhausted its steps and the state at that moment
\* is RUNNING or PAUSED (PAUSED when a pause arrived during the last step),
\* the state becomes STOPPED; the controller is never left in RUNNING or
\* PAUSED with a task that ended by exhausting its steps.
C16_ExhaustedLoopEndsStopped ==
    /\ [][\A tk \in DOMAIN tasks :
            /\ EndsClean(tk)
            /\ tasks'[tk].idx >= tasks'[tk].n
            /\ state \in {"RUNNING", "PAUSED"}
            => state' = "STOPPED"]_vars
    /\ [](\A tk \in DOMAIN tasks :
            /\ tk = task
            /\ tasks[tk].pc = "done"
            /\ tasks[tk].err = "none"
            /\ tasks[tk].idx >= tasks[tk].n
            => state \notin {"RUNNING", "PAUSED"})

\* the states in which C17 says halt() succeeds
HaltSucceedsFrom == {"IDLE", "RUNNING", "PAUSED", "STOPPING", "STOPPED"}

\* C17: halt() returns true when issued in IDLE, RUNNING, PAUSED, STOPPING
\* or STOPPED, and it leaves the state HALTED with every task terminated; a
\* halt() issued while another halt() holds the state in HALTING returns
\* false.
C17_HaltReachesHalted ==
    last.op = "halt" =>
        /\ last.exc = "none"
        /\ last.pre \in HaltSucceedsFrom => last.ret
        /\ last.pre = "HALTING" => ~last.ret
        /\ last.ret => state = "HALTED" /\ InFlight = {}

\* a halt() issued while the run was PAUSED cancelled the task, waited for
\* it and returned true
C17_Witness ==
    /\ last.op = "halt"
    /\ last.pre = "PAUSED"
    /\ last.ret
    /\ task # 0
    /\ tasks[task].cancelled
    /\ tasks[task].started
    /\ state = "HALTED"

\* the log entries by which a stop() or halt() took run tk out of RUNNING
\* or PAUSED
TakenOut(tk) ==
    {i \in DOMAIN events :
        /\ events[i].type = "state_changed"
        /\ events[i].run = tk
        /\ ~events[i].err
        /\ events[i].from \in {"RUNNING", "PAUSED"}
        /\ events[i].to \in {"STOPPING", "HALTING", "HALTED"}}

\* C18: once a stop or a halt has moved the state out of RUNNING/PAUSED to
\* STOPPING, HALTING or HALTED, the loop starts no further step (no
\* step_started of that run is published after that state change), and the
\* loop requests no further transition when it ends by early termination
\* or cancellation: the segment in which the run ends leaves the state as
\* it is and publishes no state_changed event.
C18_NoStepAfterStopOrHalt ==
    /\ [](\A tk \in DOMAIN tasks : \A i \in TakenOut(tk) :
            \A j \in DOMAIN events :
                j > i /\ events[j].run = tk =>
                    /\ events[j].type # "step_started"
                    /\ events[j].type = "state_changed" =>
                          events[j].to # "STOPPED" /\ ~events[j].err)
    /\ [][\A tk \in DOMAIN tasks :
            EndsClean(tk) /\ state \in {"STOPPING", "HALTING", "HALTED"} =>
                /\ state' = state
                /\ \A j \in DOMAIN events' :
                      j > Len(events) => events'[j].type = "step_completed"]_vars

\* a stop() arrived during step 0 of a run of two steps; the run published
\* step_completed for step 0 and ended without starting step 1
C18_Witness ==
    /\ task # 0
    /\ tasks[task].pc = "done"
    /\ tasks[task].n = 2
    /\ tasks[task].idx = 1
    /\ TakenOut(task) # {}
    /\ state = "STOPPING"
    /\ events[Len(events)].type = "step_completed"

\* ---- claims about wait_for_state ----------------------------------------
\* the suspended wait_for_state calls
Waiters == {w \in waiting : w.op = "wait"}

\* the suspended call w returns in this step; last' is its record
WaitEnds(w) == \A v \in waiting' : v.at # w.at

\* C19: wait_for_state(target, timeout) returns true only at a moment when
\* the state equals target (at once if it already does, else after the
\* test that follows a wake); it returns false only after its timeout
\* elapsed, and the timeout elapsed while the state was not target; a
\* waiter that returns leaves every other waiter as it was.
C19_WaitResultMatchesState ==
    /\ [][Returned("wait_for_state") =>
            /\ last'.ret
            /\ state = last'.arg
            /\ state' = state]_vars
    /\ [][\A w \in Waiters : WaitEnds(w) =>
            /\ last'.op = "wait_for_state"
            /\ last'.arg = w.target
            /\ state' = state
            /\ last'.ret => state = w.target /\ w.pc = "woken"
            /\ ~last'.ret => w.pc = "timedout"
            /\ waiting' = waiting \ {w}]_vars
    /\ [][\A w \in Waiters :
            w.pc # "timedout" /\ [w EXCEPT !.pc = "timedout"] \in waiting'
                => state # w.target]_vars

\* C20: every waiter suspended in wait_for_state when a transition
\* completes (its timer has not fired) is woken by the pulse of that
\* transition; and if the state becomes target and stays target, every
\* such waiter for target eventually returns true, with or without a
\* timeout.
C20_NoLostWakeup ==
    /\ [][state' # state =>
            \A w \in Waiters :
                w.pc \in {"starting", "blocked"}
                    => [w EXCEPT !.pc = "woken"] \in waiting']_vars
    /\ \A at \in 1 .. MaxCmds : \A target \in WaitTargets :
          (\E w \in Waiters :
              /\ w.at = at
              /\ w.target = target
              /\ w.pc # "timedout"
              /\ state = target)
          ~> \/ state # target
             \/ /\ \A w \in Waiters : w.at # at
                /\ last.op = "wait_for_state"
                /\ last.arg = target
                /\ last.ret

\* ---- claims about two controllers ---------------------------------------
\* the fields of engine i
View(i) == IF api.cur = i THEN Engine ELSE api.rest[i]

\* every run of engine e that saw no pause, stop or halt of its own and no
\* fault has published its change to STOPPED
SettledIn(e) ==
    \A tk \in DOMAIN e.tasks :
        \/ e.tasks[tk].disturbed
        \/ e.tasks[tk].err # "none"
        \/ \E i \in DOMAIN e.events :
              /\ e.events[i].type = "state_changed"
              /\ e.events[i].run = tk
              /\ e.events[i].to = "STOPPED"

\* C15: of two controllers created through the registry, a command on one
\* (start, pause, resume, stop, halt, reset) leaves the state, the tasks,
\* the task handle and the published events of the other unchanged, no step
\* of the program changes both, and each run that is not itself paused,
\* stopped or halted completes whatever happens to the other controller.
C15_ControllersIndependent ==
    /\ [][/\ api'.n # api.n =>
               \A i \in SequenceIds \ {api'.req} : View(i)' = View(i)
          /\ \A i, j \in SequenceIds :
               i # j => View(i)' = View(i) \/ View(j)' = View(j)]_vars
    /\ []<>(\A i \in SequenceIds : SettledIn(View(i)))

\* both controllers were started, the second was then paused and is still
\* PAUSED with its run in flight, and the undisturbed run of the first
\* completed all its steps and ended in STOPPED
C15_Witness ==
    /\ View(2).state = "PAUSED"
    /\ View(2).task # 0
    /\ View(2).tasks[View(2).task].pc = "pause"
    /\ api.req = 2
    /\ View(1).state = "STOPPED"
    /\ View(1).task # 0
    /\ ~View(1).tasks[View(1).task].disturbed
    /\ View(1).tasks[View(1).task].n = ApiSteps
    /\ View(1).tasks[View(1).task].idx = ApiSteps

\* ---- claims about the published path ------------------------------------
\* the state_changed events of the log, in publication order
Changes == SelectSeq(events, LAMBDA e : e.type = "state_changed")

\* C21: the state_changed events published by one controller form a
\* continuous path through the transition table: the first one leaves
\* IDLE, each later one leaves the state the previous one entered, every
\* (from, to) pair is an edge of VALID_TRANSITIONS, and the latest one
\* entered the current state (which is IDLE while nothing was published).
C21_EventsFormPath ==
    LET sc == Changes
    IN  /\ state = IF sc = <<>> THEN "IDLE" ELSE sc[Len(sc)].to
        /\ \A i \in DOMAIN sc :
              /\ sc[i].from = IF i = 1 THEN "IDLE" ELSE sc[i - 1].to
              /\ sc[i].to \in VALID_TRANSITIONS[sc[i].from]

\* commands and the execution task both published changes: the run was
\* paused, resumed, ended by itself in STOPPED and the controller was reset
C21_Witness ==
    LET sc == Changes
    IN  /\ Len(sc) = 5
        /\ sc[2].to = "PAUSED"
        /\ sc[3].to = "RUNNING"
        /\ sc[4].to = "STOPPED"
        /\ sc[5].to = "IDLE"
        /\ \E i \in DOMAIN events : events[i].type = "step_completed"

\* ---- claims about the end of stop() -------------------------------------
\* the suspended stop() call w ends in this step; last' is its record
StopEnds(w) == w.op = "stop" /\ w \notin waiting'

\* C22: a stop() accepted from RUNNING or PAUSED always returns, also when
\* the run is paused, and when it returns the execution task has ended by
\* itself after observing STOPPING.  (The other way the claim names, the
\* 5 s timeout with its escalation to halt(), never happens: after STOPPING
\* the task starts no new sleep.)
C22_StopReturnsAfterTaskEnds ==
    /\ [][\A w \in waiting : StopEnds(w) =>
            /\ last'.op = "stop"
            /\ last'.exc = "none"
            /\ last'.ret
            /\ tasks[w.tk].pc = "done"
            /\ ~tasks[w.tk].cancelled]_vars
    /\ \A at \in 1 .. MaxCmds :
          (\E w \in waiting : w.op = "stop" /\ w.at = at)
              ~> ~(\E w \in waiting : w.op = "stop" /\ w.at = at)

\* the part of C22 that the code keeps: every accepted stop() ends, by
\* returning or by raising, and the task has ended by then
C22_StopEnds ==
    /\ [][\A w \in waiting : StopEnds(w) => tasks[w.tk].pc = "done"]_vars
    /\ \A at \in 1 .. MaxCmds :
          (\E w \in waiting : w.op = "stop" /\ w.at = at)
              ~> ~(\E w \in waiting : w.op = "stop" /\ w.at = at)
====
